---- MODULE Spec2Model ----
(***************************************************************************)
(* Model of the training orchestration of src/train.py: the EarlyStopper   *)
(* object, the epoch loop of main() (train, validate, early_stop,          *)
(* torch.save of the last and the best checkpoint, stop check), a process  *)
(* crash at any point of the loop and a restart of the script with or      *)
(* without --resume.                                                       *)
(*                                                                         *)
(* Scores and min_delta are floats in the source; here they are integers   *)
(* in the same unit (one mAP point), which is exact for the values used.   *)
(* -float('inf') is the value NegInf with its comparisons spelled out.     *)
(* The tensors of model.state_dict() are abstracted to the list of model   *)
(* modes under which each completed training pass ran: with a fixed seed   *)
(* and an unshuffled loader it is the only input of train() that can       *)
(* differ between two runs. opt counts optimizer steps, sched counts       *)
(* scheduler steps.                                                        *)
(***************************************************************************)
EXTENDS Integers, Sequences, FiniteSets, TLC

\* ------------------------------------------------------------- bounds
NumEpochs == 5        \* args.num_epochs
NumBatches == 2       \* len(train_loader)
MaxProcs == 2         \* launches of the script on one save folder
MaxCalls == 5         \* early_stop calls made on one EarlyStopper object
MaxPatience == 2
MaxDelta == 1
NumScores == 5        \* how many different scores validate may return
HiScore == 12         \* the largest of them

MaxLen == 7           \* len(val_dataset)
MaxBatch == 4         \* args.batch_size

NegInf == -1          \* -float('inf'): below every score

Scores == (HiScore - NumScores + 1)..HiScore
\* argparse takes any int and any float: negative values are among them
Patiences == -1..MaxPatience
MinDeltas == -1..MaxDelta
Thresholds == {HiScore - 1, 95}
Resumes == {"none", "last", "best"}

VARIABLES
    args,               \* parsed arguments: patience, min_delta, threshold
    pc,                 \* position of the running process in main()
    proc,               \* number of launches so far
    resume,             \* args.resume of the current launch
    start_epoch,
    epoch,              \* loop variable of the epoch loop
    model,              \* model parameters
    mode,               \* model mode: "train" or "eval"
    opt,                \* optimizer state
    sched,              \* scheduler state
    early_stopper,      \* the EarlyStopper object
    val_map,
    is_early_stopping,
    is_save_ckpt,
    train_loss,         \* "finite" or "nan"; "none" before the first pass
    lastFile,           \* last-vigat-<dataset>.pt
    bestFile,           \* best-vigat-<dataset>.pt
    steps,              \* history: steps completed in the current iteration
    iters,              \* history: last checkpoints written by this process
    loaded,             \* history: epoch field of the checkpoint this launch loaded
    resumeSt,           \* history: state of the --resume file when it was read
    error,              \* history: the step of this launch that raised
    prevFiles,          \* history: last file, best file and best score when
                        \* the current iteration began
    bestScore,          \* history: val_map of the epoch saved in the best file
    scores,             \* history: scores passed to early_stop
    outs,               \* history: what each early_stop call returned and left
    dataset_len,        \* validate(): len(dataset)
    batch_size,         \* args.batch_size
    loader,             \* validate(): the batches the loader still holds
    gidx,               \* validate(): gidx
    rows                \* validate(): per row of scores, the samples written to it

procVars == <<start_epoch, epoch, model, mode, opt, sched, early_stopper,
              val_map, is_early_stopping, is_save_ckpt, train_loss>>
ghostVars == <<steps, iters, loaded, resumeSt, error>>
noteVars == <<prevFiles, bestScore>>
fileVars == <<lastFile, bestFile>>
histVars == <<scores, outs>>
valVars == <<dataset_len, batch_size, loader, gidx, rows>>
vars == <<args, pc, proc, resume, procVars, fileVars, ghostVars, noteVars,
          histVars, valVars>>

\* ------------------------------------------------------- EarlyStopper
\* line 45 with >= for >
GeMax(validation_mAP, max) ==
    IF max = NegInf THEN TRUE ELSE validation_mAP >= max

\* validation_mAP > self.max_validation_mAP, with -inf below everything
GtMax(validation_mAP, max) ==
    IF max = NegInf THEN TRUE ELSE validation_mAP > max

\* line 49 with <= for <
LeMaxMinusDelta(validation_mAP, max, min_delta) ==
    IF max = NegInf THEN FALSE ELSE validation_mAP <= max - min_delta

\* validation_mAP < (self.max_validation_mAP - self.min_delta); -inf - d = -inf
LtMaxMinusDelta(validation_mAP, max, min_delta) ==
    IF max = NegInf THEN FALSE ELSE validation_mAP < max - min_delta

EarlyStopperInit(patience, min_delta, threshold) ==
    [patience |-> patience, min_delta |-> min_delta, counter |-> 0,
     max_validation_mAP |-> NegInf, threshold |-> threshold]

\* line 43 with > for >=
AtThresholdStrict(validation_mAP, threshold) == validation_mAP > threshold

\* validation_mAP >= self.threshold
AtThreshold(validation_mAP, threshold) == validation_mAP >= threshold

\* line 44 that also records the score as the best one
ThresholdReturnTracked(self, validation_mAP) ==
    [self |-> [self EXCEPT !.max_validation_mAP = validation_mAP],
     stop |-> TRUE, save |-> TRUE]

\* return True, True
ThresholdReturn(self, validation_mAP) ==
    [self |-> self, stop |-> TRUE, save |-> TRUE]

\* line 51 with >= for >
OverPatienceReached(counter, patience) == counter >= patience

\* self.counter > self.patience
OverPatience(counter, patience) == counter > patience

\* line 53 that gives the patience back on a plateau
PlateauReturnReset(self) ==
    [self |-> [self EXCEPT !.counter = 0], stop |-> FALSE, save |-> FALSE]

\* the final return False, False, reached with the object untouched
PlateauReturn(self) == [self |-> self, stop |-> FALSE, save |-> FALSE]

\* the result is the object after the call and the returned pair
early_stop(self, validation_mAP) ==
    IF AtThreshold(validation_mAP, self.threshold)
    THEN ThresholdReturn(self, validation_mAP)
    ELSE IF GtMax(validation_mAP, self.max_validation_mAP)
    THEN [self |-> [self EXCEPT !.max_validation_mAP = validation_mAP,
                                !.counter = 0],
          stop |-> FALSE, save |-> TRUE]
    ELSE IF LtMaxMinusDelta(validation_mAP, self.max_validation_mAP,
                            self.min_delta)
    THEN [self |-> [self EXCEPT !.counter = self.counter + 1],
          stop |-> OverPatience(self.counter + 1, self.patience),
          save |-> FALSE]
    ELSE PlateauReturn(self)

\* ------------------------------------------------------- checkpoints
Absent == [st |-> "absent", epoch |-> 0, loss |-> "none",
           model_state_dict |-> <<>>, opt_state_dict |-> 0,
           sched_state_dict |-> 0]

\* a file opened for writing and not yet complete: torch.load raises on it
Partial == [st |-> "partial", epoch |-> 0, loss |-> "none",
            model_state_dict |-> <<>>, opt_state_dict |-> 0,
            sched_state_dict |-> 0]

\* model_config of the current iteration, as a complete file
model_config ==
    [st |-> "ok", epoch |-> epoch + 1, loss |-> train_loss,
     model_state_dict |-> model, opt_state_dict |-> opt,
     sched_state_dict |-> sched]

FileOf(path) == IF path = "last" THEN lastFile ELSE bestFile

\* ------------------------------------------------------------ main()
Running == {"train", "validate", "early_stop", "save_last", "writing_last",
            "save_best", "writing_best", "check"}
Ended == {"boot", "crashed", "failed", "stopped_early", "stopped_budget"}

\* a resumed run that counts its epochs from 0 again
StartEpochZero(data) == 0

\* start_epoch of a run that resumes from data
StartEpoch(data) == data.epoch

\* line 131 with a range that includes num_epochs
LoopEntryInclusive(first) ==
    IF first <= NumEpochs THEN "train" ELSE "stopped_budget"

\* for epoch in range(start_epoch, args.num_epochs): the first position
LoopEntry(first) == IF first < NumEpochs THEN "train" ELSE "stopped_budget"

\* line 154 without its condition
AfterSaveLastAlways(save) == "save_best"

\* the step after torch.save(last)
AfterSaveLast(save) == IF save THEN "save_best" ELSE "check"

\* torch.load that hands back whatever the path holds
LoadOkAlways(data) == TRUE

\* torch.load(args.resume) returns: the file exists and is complete
LoadOk(data) == data.st = "ok"

\* an exception that is caught and the loop carried on with
RaiseSwallowed(at) ==
    IF at = "train" THEN "validate"
    ELSE IF at = "validate" THEN "early_stop"
    ELSE IF at = "save_last" THEN AfterSaveLast(is_save_ckpt)
    ELSE "check"

\* an exception raised in the loop: nothing in main catches it
Raise(at) == "failed"

\* the state a fresh launch builds before the loop, model.train() included
Fresh == [model |-> <<>>, opt |-> 0, sched |-> 0, mode |-> "train"]

\* parameters that a non-finite update has reached
Poisoned(m) == m # <<>> /\ m[Len(m)] = "nan"

\* the losses a pass can end with: non-finite parameters give nothing else
Losses(m) == IF Poisoned(m) THEN {"nan"} ELSE {"finite", "nan"}

\* train(): one optimizer step per batch and one scheduler step, whatever
\* the loss; the parameters move as the mode of the model makes them, or
\* become non-finite with the loss; the mode stays
train(st, loss) ==
    [model |-> Append(st.model, IF loss = "nan" THEN "nan" ELSE st.mode),
     opt |-> st.opt + NumBatches, sched |-> st.sched + 1, mode |-> st.mode]

\* validate(): model.eval(); parameters, optimizer and scheduler untouched
validate(st) == [st EXCEPT !.mode = "eval"]

\* EarlyStopper that starts from +inf
EarlyStopperInitPosInf(patience, min_delta, threshold) ==
    [patience |-> patience, min_delta |-> min_delta, counter |-> 0,
     max_validation_mAP |-> 1000, threshold |-> threshold]

\* early_stopper = EarlyStopper(patience=..., min_delta=..., threshold=...)
NewEarlyStopper(patience, min_delta, threshold) ==
    EarlyStopperInit(patience, min_delta, threshold)

\* One launch of the script: construction, optional resume, fresh
\* EarlyStopper, model.train(), loop entry.
Start(r) ==
    /\ pc \in Ended
    /\ proc < MaxProcs
    /\ proc' = proc + 1
    /\ resume' = r
    /\ early_stopper' = NewEarlyStopper(args.patience, args.min_delta,
                                        args.threshold)
    /\ val_map' = 0
    /\ is_early_stopping' = FALSE
    /\ is_save_ckpt' = FALSE
    /\ train_loss' = "none"
    /\ steps' = <<>>
    /\ iters' = 0
    /\ loaded' = IF r # "none" /\ FileOf(r).st = "ok" THEN FileOf(r).epoch ELSE 0
    /\ resumeSt' = IF r = "none" THEN "none" ELSE FileOf(r).st
    /\ IF r = "none"
       THEN /\ start_epoch' = 0
            /\ model' = Fresh.model
            /\ opt' = Fresh.opt
            /\ sched' = Fresh.sched
            /\ mode' = Fresh.mode
            /\ error' = "none"
            /\ pc' = LoopEntry(0)
       ELSE IF LoadOk(FileOf(r))
       THEN /\ start_epoch' = StartEpoch(FileOf(r))
            /\ model' = FileOf(r).model_state_dict
            /\ opt' = FileOf(r).opt_state_dict
            /\ sched' = FileOf(r).sched_state_dict
            /\ mode' = Fresh.mode
            /\ error' = "none"
            /\ pc' = LoopEntry(StartEpoch(FileOf(r)))
       ELSE \* torch.load raises: the process ends before the loop
            /\ start_epoch' = 0
            /\ model' = <<>>
            /\ opt' = 0
            /\ sched' = 0
            /\ mode' = "train"
            /\ error' = "resume"
            /\ pc' = "failed"
    /\ epoch' = start_epoch'
    /\ UNCHANGED <<args, fileVars>>

\* train() returning the mean loss: one optimizer step per batch, one
\* scheduler step, in the mode the model is in
Train(loss) ==
    /\ pc = "train"
    /\ LET r == train([model |-> model, opt |-> opt, sched |-> sched,
                       mode |-> mode], loss) IN
         /\ model' = r.model
         /\ opt' = r.opt
         /\ sched' = r.sched
    /\ train_loss' = loss
    /\ steps' = <<"train">>
    /\ pc' = "validate"
    /\ UNCHANGED <<args, proc, resume, start_epoch, epoch, mode,
                   early_stopper, val_map, is_early_stopping, is_save_ckpt,
                   fileVars, iters, loaded, resumeSt, error>>

\* validate(): model.eval(), then the score of the metric
Validate ==
    /\ pc = "validate"
    /\ mode' = validate([model |-> model, opt |-> opt, sched |-> sched,
                         mode |-> mode]).mode
    /\ \E s \in Scores : val_map' = s
    /\ steps' = Append(steps, "validate")
    /\ pc' = "early_stop"
    /\ UNCHANGED <<args, proc, resume, start_epoch, epoch, model, opt, sched,
                   early_stopper, is_early_stopping, is_save_ckpt,
                   train_loss, fileVars, iters, loaded, resumeSt, error>>

EarlyStop ==
    /\ pc = "early_stop"
    /\ LET r == early_stop(early_stopper, val_map) IN
         /\ early_stopper' = r.self
         /\ is_early_stopping' = r.stop
         /\ is_save_ckpt' = r.save
    /\ steps' = Append(steps, "early_stop")
    /\ pc' = "save_last"
    /\ UNCHANGED <<args, proc, resume, start_epoch, epoch, model, mode, opt,
                   sched, val_map, train_loss, fileVars, iters, loaded,
                   resumeSt, error>>

\* torch.save(model_config, last): the file is opened (truncated) ...
OpenLast ==
    /\ pc = "save_last"
    /\ lastFile' = Partial
    /\ pc' = "writing_last"
    /\ UNCHANGED <<args, proc, resume, procVars, bestFile, ghostVars>>

\* ... and written to the end
CloseLast ==
    /\ pc = "writing_last"
    /\ lastFile' = model_config
    /\ steps' = Append(steps, "save_last")
    /\ iters' = iters + 1
    /\ pc' = AfterSaveLast(is_save_ckpt)
    /\ UNCHANGED <<args, proc, resume, procVars, bestFile, loaded, resumeSt,
                   error>>

OpenBest ==
    /\ pc = "save_best"
    /\ bestFile' = Partial
    /\ pc' = "writing_best"
    /\ UNCHANGED <<args, proc, resume, procVars, lastFile, ghostVars>>

CloseBest ==
    /\ pc = "writing_best"
    /\ bestFile' = model_config
    /\ steps' = Append(steps, "save_best")
    /\ pc' = "check"
    /\ UNCHANGED <<args, proc, resume, procVars, lastFile, iters, loaded,
                   resumeSt, error>>

\* if is_early_stopping: break; else the next value of the range
Check ==
    /\ pc = "check"
    /\ IF is_early_stopping
       THEN /\ pc' = "stopped_early"
            /\ epoch' = epoch
       ELSE IF epoch + 1 < NumEpochs
       THEN /\ pc' = "train"
            /\ epoch' = epoch + 1
       ELSE /\ pc' = "stopped_budget"
            /\ epoch' = epoch
    /\ steps' = IF pc' = "train" THEN <<>> ELSE steps
    /\ UNCHANGED <<args, proc, resume, start_epoch, model, mode, opt, sched,
                   early_stopper, val_map, is_early_stopping, is_save_ckpt,
                   train_loss, fileVars, iters, loaded, resumeSt, error>>

\* train(), validate() or torch.save raises (out of memory, unreadable
\* sample, full disk): the exception leaves main. A torch.save that
\* raises after opening the file leaves what it had written.
Fail ==
    /\ \/ pc = "train" /\ error' = "train"
       \/ pc = "validate" /\ error' = "validate"
       \/ pc \in {"save_last", "writing_last"} /\ error' = "save_last"
       \/ pc \in {"save_best", "writing_best"} /\ error' = "save_best"
    /\ pc' = Raise(error')
    /\ UNCHANGED <<args, proc, resume, procVars, fileVars, steps, iters,
                   loaded, resumeSt>>

\* the process is killed (power loss, SIGKILL) anywhere in the loop
Crash ==
    /\ pc \in Running
    /\ pc' = "crashed"
    /\ UNCHANGED <<args, proc, resume, procVars, fileVars, ghostVars>>

InitCommon ==
    /\ args \in [patience : Patiences, min_delta : MinDeltas,
                 threshold : Thresholds]
    /\ proc = 0
    /\ resume = "none"
    /\ start_epoch = 0
    /\ epoch = 0
    /\ model = <<>>
    /\ mode = "train"
    /\ opt = 0
    /\ sched = 0
    /\ early_stopper = EarlyStopperInit(args.patience, args.min_delta,
                                        args.threshold)
    /\ val_map = 0
    /\ is_early_stopping = FALSE
    /\ is_save_ckpt = FALSE
    /\ train_loss = "none"
    /\ lastFile = Absent
    /\ bestFile = Absent
    /\ steps = <<>>
    /\ iters = 0
    /\ loaded = 0
    /\ resumeSt = "none"
    /\ error = "none"
    /\ prevFiles = <<Absent, Absent, 0>>
    /\ bestScore = 0
    /\ scores = <<>>
    /\ outs = <<>>

\* no validation pass under way
ValIdle ==
    /\ dataset_len = 0
    /\ batch_size = 1
    /\ loader = <<>>
    /\ gidx = 0
    /\ rows = [r \in 0..(MaxLen + MaxBatch) |-> <<>>]

Init == InitCommon /\ pc = "boot" /\ ValIdle

Next ==
    \/ \E r \in Resumes : Start(r) /\ UNCHANGED <<noteVars, histVars, valVars>>
    \/ Train("finite") /\ UNCHANGED <<noteVars, histVars, valVars>>
    \/ Validate /\ UNCHANGED <<noteVars, histVars, valVars>>
    \/ EarlyStop /\ UNCHANGED <<noteVars, histVars, valVars>>
    \/ OpenLast /\ UNCHANGED <<noteVars, histVars, valVars>>
    \/ CloseLast /\ UNCHANGED <<noteVars, histVars, valVars>>
    \/ OpenBest /\ UNCHANGED <<noteVars, histVars, valVars>>
    \/ CloseBest /\ UNCHANGED <<noteVars, histVars, valVars>>
    \/ Check /\ UNCHANGED <<noteVars, histVars, valVars>>
    \/ Crash /\ UNCHANGED <<noteVars, histVars, valVars>>

Spec == Init /\ [][Next]_vars

\* ----------------------------------- launches that nothing interrupts
\* a step of the running process
Step ==
    \/ Train("finite")
    \/ Validate
    \/ EarlyStop
    \/ OpenLast
    \/ CloseLast
    \/ OpenBest
    \/ CloseBest
    \/ Check

\* Launches, fresh or resumed, one after the other, each running to its
\* end: a process that is running takes its next step.
NextLive ==
    \/ \E r \in Resumes : Start(r) /\ UNCHANGED <<noteVars, histVars, valVars>>
    \/ Step /\ UNCHANGED <<noteVars, histVars, valVars>>

SpecLive ==
    /\ Init
    /\ [][NextLive]_vars
    /\ WF_vars(Step /\ UNCHANGED <<noteVars, histVars, valVars>>)

\* ------------------------------------------- one uninterrupted launch
\* what the call just made returned and left behind
RecordCall ==
    /\ scores' = Append(scores, val_map')
    /\ outs' = Append(outs, [stop |-> is_early_stopping',
                             save |-> is_save_ckpt',
                             counter |-> early_stopper'.counter,
                             max |-> early_stopper'.max_validation_mAP])

\* A single fresh launch that nothing interrupts, with the scores fed to
\* early_stop and its answers recorded.
NextRun ==
    \/ proc = 0 /\ Start("none") /\ UNCHANGED <<noteVars, histVars, valVars>>
    \/ Train("finite") /\ UNCHANGED <<noteVars, histVars, valVars>>
    \/ Validate /\ UNCHANGED <<noteVars, histVars, valVars>>
    \/ EarlyStop /\ RecordCall /\ UNCHANGED <<noteVars, valVars>>
    \/ OpenLast /\ UNCHANGED <<noteVars, histVars, valVars>>
    \/ CloseLast /\ UNCHANGED <<noteVars, histVars, valVars>>
    \/ OpenBest /\ UNCHANGED <<noteVars, histVars, valVars>>
    \/ CloseBest /\ UNCHANGED <<noteVars, histVars, valVars>>
    \/ Check /\ UNCHANGED <<noteVars, histVars, valVars>>

SpecRun == Init /\ [][NextRun]_vars

\* --------------------------------------- the EarlyStopper object alone
\* early_stop called on one EarlyStopper with any score, any number of
\* times, also after it has answered stop.
CallEarlyStop(s) ==
    /\ pc = "unit"
    /\ Len(scores) < MaxCalls
    /\ val_map' = s
    /\ LET r == early_stop(early_stopper, s) IN
         /\ early_stopper' = r.self
         /\ is_early_stopping' = r.stop
         /\ is_save_ckpt' = r.save
    /\ RecordCall
    /\ UNCHANGED <<args, pc, proc, resume, start_epoch, epoch, model, mode,
                   opt, sched, train_loss, fileVars, ghostVars, noteVars,
                   valVars>>

InitES == InitCommon /\ pc = "unit" /\ ValIdle

NextES == \E s \in Scores : CallEarlyStop(s)

SpecES == InitES /\ [][NextES]_vars

\* main() with everything that can go wrong in it: a non-finite loss,
\* an exception in train(), validate() or torch.save, a kill, an unreadable
\* --resume file. The files and the best score are noted when an iteration
\* begins, and the score of the epoch written to the best file with it.
NoteFiles == prevFiles' = <<lastFile, bestFile, bestScore>>

NoteBest == bestScore' = val_map

InitFault == Init /\ args.patience \in 0..1 /\ args.min_delta = 0

NextFault ==
    \/ \E r \in Resumes :
          Start(r) /\ NoteFiles /\ UNCHANGED <<bestScore, histVars, valVars>>
    \/ \E l \in Losses(model) :
          Train(l) /\ UNCHANGED <<noteVars, histVars, valVars>>
    \/ Validate /\ UNCHANGED <<noteVars, histVars, valVars>>
    \/ EarlyStop /\ UNCHANGED <<noteVars, histVars, valVars>>
    \/ OpenLast /\ UNCHANGED <<noteVars, histVars, valVars>>
    \/ CloseLast /\ UNCHANGED <<noteVars, histVars, valVars>>
    \/ OpenBest /\ UNCHANGED <<noteVars, histVars, valVars>>
    \/ CloseBest /\ NoteBest /\ UNCHANGED <<prevFiles, histVars, valVars>>
    \/ Check /\ NoteFiles /\ UNCHANGED <<bestScore, histVars, valVars>>
    \/ Fail /\ UNCHANGED <<noteVars, histVars, valVars>>
    \/ Crash /\ UNCHANGED <<noteVars, histVars, valVars>>

SpecFault == InitFault /\ [][NextFault]_vars


\* ------------------------------------------------ validate() alone
\* the sample numbers first..last, in order
RECURSIVE Range(_, _)
Range(first, last) ==
    IF first > last THEN <<>> ELSE <<first>> \o Range(first + 1, last)

\* DataLoader(val_dataset, batch_size): the samples in order, batch_size
\* at a time, the last batch holding what is left
RECURSIVE Batches(_, _, _)
Batches(first, n, b) ==
    IF first >= n THEN <<>>
    ELSE LET last == IF first + b <= n THEN first + b - 1 ELSE n - 1 IN
         <<Range(first, last)>> \o Batches(last + 1, n, b)

\* gidx that counts batches
NextGidxByBatch(g, shape) == g + 1

\* gidx += shape
NextGidx(g, shape) == g + shape

\* scores[gidx:gidx+shape, :] = out_data, one output row per sample
WriteRows(m, g, batch) ==
    [r \in DOMAIN m |->
        IF r >= g /\ r < g + Len(batch)
        THEN Append(m[r], batch[r - g + 1]) ELSE m[r]]

\* one turn of the loop of validate()
ValidateBatch ==
    /\ pc = "validate()"
    /\ loader # <<>>
    /\ rows' = WriteRows(rows, gidx, Head(loader))
    /\ gidx' = NextGidx(gidx, Len(Head(loader)))
    /\ loader' = Tail(loader)
    /\ UNCHANGED <<args, pc, proc, resume, procVars, fileVars, ghostVars,
                   noteVars, histVars, dataset_len, batch_size>>

\* the loader is exhausted: the metric is computed and returned
ValidateReturn ==
    /\ pc = "validate()"
    /\ loader = <<>>
    /\ pc' = "validated"
    /\ \E s \in Scores : val_map' = s
    /\ UNCHANGED <<args, proc, resume, start_epoch, epoch, model, mode, opt,
                   sched, early_stopper, is_early_stopping, is_save_ckpt,
                   train_loss, fileVars, ghostVars, noteVars, histVars,
                   valVars>>

\* validate() entered with model.eval() done, for any dataset length and
\* batch size
InitVal ==
    /\ InitCommon
    /\ args.patience = 0 /\ args.min_delta = 0 /\ args.threshold = 95
    /\ pc = "validate()"
    /\ dataset_len \in 0..MaxLen
    /\ batch_size \in 1..MaxBatch
    /\ loader = Batches(0, dataset_len, batch_size)
    /\ gidx = 0
    /\ rows = [r \in 0..(MaxLen + MaxBatch) |-> <<>>]

NextVal == ValidateBatch \/ ValidateReturn

SpecVal == InitVal /\ [][NextVal]_vars

\* =============================================================== claims
IsPrefix(s, t) == Len(s) <= Len(t) /\ s = SubSeq(t, 1, Len(s))

Out(stop, save, counter, max) ==
    [stop |-> stop, save |-> save, counter |-> counter, max |-> max]

\* the object as it was before call i
CounterBefore(i) == IF i = 1 THEN 0 ELSE outs[i - 1].counter
MaxBefore(i) == IF i = 1 THEN NegInf ELSE outs[i - 1].max

ScenarioArgs == [patience |-> 2, min_delta |-> 1, threshold |-> 95]
Scenario == <<10, 12, 11, 9, 8>>
ScenarioClaimed ==
    <<Out(FALSE, TRUE, 0, 10), Out(FALSE, TRUE, 0, 12),
      Out(FALSE, FALSE, 1, 12), Out(FALSE, FALSE, 2, 12),
      Out(TRUE, FALSE, 3, 12)>>
ScenarioActual ==
    <<Out(FALSE, TRUE, 0, 10), Out(FALSE, TRUE, 0, 12),
      Out(FALSE, FALSE, 0, 12), Out(FALSE, FALSE, 1, 12),
      Out(FALSE, FALSE, 2, 12)>>
InScenario == args = ScenarioArgs /\ IsPrefix(scores, Scenario)

\* C1 as stated: with patience=2, min_delta=1, threshold=95 the scores
\* 10, 12, 11, 9, 8 give (F,T), (F,T), (F,F) counter 1, (F,F) counter 2,
\* (T,F) counter 3, so the run stops at the 5th score.
C1_ScenarioAsClaimed ==
    InScenario =>
        /\ outs = SubSeq(ScenarioClaimed, 1, Len(scores))
        /\ (Len(scores) = 5 /\ pc \in Ended => pc = "stopped_early")

\* C1 amended: in that scenario 11 lies on the tolerance boundary 12 - 1
\* and is a plateau, so the decisions are (F,T), (F,T), (F,F) counter 0,
\* (F,F) counter 1, (F,F) counter 2; the run does not stop at the 5th
\* score, and the best checkpoint is the one of the 2nd epoch (score 12).
C1_Scenario ==
    InScenario =>
        /\ outs = SubSeq(ScenarioActual, 1, Len(scores))
        /\ (Len(scores) = 5 =>
               /\ pc # "stopped_early"
               /\ bestFile.st = "ok"
               /\ bestFile.epoch = 2
               /\ bestFile.model_state_dict = SubSeq(model, 1, 2))

C1_Witness ==
    /\ args = ScenarioArgs
    /\ scores = Scenario
    /\ pc = "stopped_budget"

\* the scores reach their maximum once, at call i, every later score is
\* more than min_delta below the one before it, none reaches threshold
PeaksOnceAt(i) ==
    /\ i \in 1..Len(scores)
    /\ \A j \in 1..Len(scores) : scores[j] < args.threshold
    /\ \A j \in 1..Len(scores) : j # i => scores[j] < scores[i]
    /\ \A j \in (i + 1)..Len(scores) :
           scores[j] < scores[j - 1] - args.min_delta

C3_ThresholdShortCircuit ==
    \A i \in 1..Len(scores) :
        scores[i] >= args.threshold => outs[i].stop /\ outs[i].save

C3_Witness ==
    \E i \in 2..Len(scores) :
        /\ scores[i] = args.threshold
        /\ CounterBefore(i) > args.patience
        /\ outs[i].stop
        /\ outs[i].save

\* the largest score below threshold among the first n calls
RECURSIVE BestBelowThreshold(_)
BestBelowThreshold(n) ==
    IF n = 0 THEN NegInf
    ELSE LET m == BestBelowThreshold(n - 1) IN
         IF scores[n] < args.threshold /\ (m = NegInf \/ scores[n] > m)
         THEN scores[n] ELSE m

\* C4: max_validation_mAP is the maximum of the scores below threshold
\* passed so far (-inf when there is none), a call on the threshold path
\* leaves it as it was, and it never decreases.
C4_BestTracking ==
    /\ early_stopper.max_validation_mAP = BestBelowThreshold(Len(scores))
    /\ \A i \in 1..Len(scores) :
           /\ outs[i].max = BestBelowThreshold(i)
           /\ scores[i] >= args.threshold => outs[i].max = MaxBefore(i)
           /\ MaxBefore(i) = NegInf \/ outs[i].max >= MaxBefore(i)

C4_Witness ==
    \E i \in 2..Len(scores) :
        /\ i < Len(scores)
        /\ scores[i] >= args.threshold
        /\ MaxBefore(i) # NegInf
        /\ scores[i + 1] < MaxBefore(i)
        /\ early_stopper.max_validation_mAP = MaxBefore(i)

\* call i is made with a score inside [max - min_delta, max]
OnPlateau(i) ==
    /\ MaxBefore(i) # NegInf
    /\ scores[i] < args.threshold
    /\ scores[i] >= MaxBefore(i) - args.min_delta
    /\ scores[i] <= MaxBefore(i)

\* C5: a call with a score inside [max - min_delta, max] returns
\* (false, false) and leaves counter and max_validation_mAP as they were.
C5_PlateauNeutral ==
    \A i \in 1..Len(scores) :
        OnPlateau(i) =>
            /\ ~outs[i].stop
            /\ ~outs[i].save
            /\ outs[i].counter = CounterBefore(i)
            /\ outs[i].max = MaxBefore(i)

C5_Witness ==
    \E i \in 2..Len(scores) :
        /\ i < Len(scores)
        /\ OnPlateau(i)
        /\ OnPlateau(i + 1)
        /\ scores[i] = MaxBefore(i) - args.min_delta
        /\ args.min_delta > 0
        /\ CounterBefore(i) > args.patience

\* C6: after a crash the last and the best checkpoint are each either
\* absent or a complete checkpoint, never a partly written file.
C6_AtomicWrites ==
    pc = "crashed" =>
        /\ lastFile.st \in {"absent", "ok"}
        /\ bestFile.st \in {"absent", "ok"}

\* C7: every training pass starts with the model in training mode.
C7_TrainingModeAtTrain == pc = "train" => mode = "train"

\* C8: the n-th last checkpoint a launch writes carries the epoch of the
\* checkpoint it loaded (0 for a fresh launch) plus n.
C8_EpochContinuity ==
    (iters >= 1 /\ lastFile.st = "ok") => lastFile.epoch = loaded + iters

C8_Witness ==
    /\ proc = 2
    /\ resume # "none"
    /\ loaded >= 1
    /\ iters >= 2
    /\ lastFile.st = "ok"
    /\ lastFile.epoch = loaded + iters

\* the state in which a launch that nothing interrupts enters the
\* training pass of epoch k + 1
RECURSIVE UninterruptedEntry(_)
UninterruptedEntry(k) ==
    IF k = 0 THEN Fresh
    ELSE validate(train(UninterruptedEntry(k - 1), "finite"))

\* C9: a resumed launch enters its first training pass in the state in
\* which an uninterrupted launch enters the same epoch: parameters,
\* optimizer state, scheduler state and model mode.
C9_ResumeEqualsUninterrupted ==
    (pc = "train" /\ resume # "none" /\ epoch = start_epoch
        /\ start_epoch >= 1) =>
        [model |-> model, opt |-> opt, sched |-> sched, mode |-> mode]
            = UninterruptedEntry(epoch)

FullOrder == <<"train", "validate", "early_stop", "save_last", "save_best">>

\* C10: the steps of an iteration run in the order train, validate,
\* early_stop, save(last), save(best); an iteration that reaches the stop
\* check, the stopping one included, has written the last checkpoint, and
\* has written the best checkpoint exactly when early_stop said save.
C10_IterationOrder ==
    /\ IsPrefix(steps, FullOrder)
    /\ pc \in {"check", "stopped_early"} =>
           /\ steps = IF is_save_ckpt THEN FullOrder
                      ELSE SubSeq(FullOrder, 1, 4)
           /\ lastFile = model_config
           /\ is_save_ckpt => bestFile = model_config

C10_Witness ==
    /\ pc = "stopped_early"
    /\ ~is_save_ckpt
    /\ steps = SubSeq(FullOrder, 1, 4)
    /\ lastFile = model_config
    /\ bestFile.st = "ok"
    /\ bestFile.epoch < lastFile.epoch

\* epoch_cnt, the number printed by 'Stop at epoch {}'
epoch_cnt == epoch + 1

Stopped == {"stopped_early", "stopped_budget"}

C11_TerminalStates ==
    /\ pc \in {"train", "validate", "early_stop"} => ~is_early_stopping
    /\ pc = "stopped_early" =>
           /\ is_early_stopping
           /\ iters >= 1
           /\ epoch_cnt = start_epoch + iters
           /\ lastFile.epoch = epoch_cnt
    /\ pc = "stopped_budget" =>
           /\ ~is_early_stopping
           /\ iters = IF NumEpochs > start_epoch
                      THEN NumEpochs - start_epoch ELSE 0
           /\ start_epoch >= NumEpochs => steps = <<>>

\* C11: a launch that meets no failure ends, either stopped early in the
\* first epoch whose early_stop call answers stop, which is the epoch it
\* reports, or on the budget after max(0, num_epochs - start_epoch)
\* iterations, none and no write when it resumes at num_epochs or later;
\* once stopped it runs no further step.
C11_Termination ==
    /\ []C11_TerminalStates
    /\ [][(pc \in Stopped /\ pc' # pc) => (proc' = proc + 1)]_vars
    /\ (pc \in Running ~> pc \in Stopped)

C11_Witness ==
    /\ pc = "stopped_budget"
    /\ resume = "last"
    /\ start_epoch = NumEpochs
    /\ iters = 0
    /\ lastFile.epoch = NumEpochs

\* the number of samples the loader has handed out so far
Consumed == IF loader = <<>> THEN dataset_len ELSE Head(loader)[1]

\* C12: the batches fill the rows of scores from 0 upwards without gap or
\* overlap: after any number of batches the rows of the samples handed
\* out so far have each been written once, row i with sample i, no other
\* row has been written, and at the end these are the rows 0..N-1.
C12_RowAlignment ==
    pc \in {"validate()", "validated"} =>
        /\ gidx = Consumed
        /\ \A r \in DOMAIN rows :
               rows[r] = IF r < Consumed THEN <<r>> ELSE <<>>
        /\ loader = <<>> => gidx = dataset_len

C12_Witness ==
    /\ pc = "validated"
    /\ dataset_len = MaxLen
    /\ gidx = dataset_len
    /\ rows[0] = <<0>>
    /\ rows[dataset_len - 1] = <<dataset_len - 1>>
    /\ rows[dataset_len] = <<>>
    /\ batch_size >= 2
    /\ dataset_len % batch_size # 0

\* C13: with a negative patience or a negative min_delta the run fails at
\* startup: it never trains, validates or writes a checkpoint.
C13_InvalidArgsRejected ==
    (args.patience < 0 \/ args.min_delta < 0) =>
        /\ pc \in {"boot", "failed"}
        /\ steps = <<>>
        /\ lastFile = Absent
        /\ bestFile = Absent

\* C14: a pass of train() that ends with a non-finite loss ends the run
\* as failed, and no checkpoint is ever written from such an epoch.
C14_NonFiniteLossFatal ==
    /\ (train_loss = "nan" /\ pc # "crashed") => pc = "failed"
    /\ lastFile.loss # "nan"
    /\ bestFile.loss # "nan"

\* C15: when --resume names a file that is missing or cannot be read, the
\* process fails before the loop: it trains no epoch, writes no file and
\* does not go on from a fresh epoch-0 state.
C15_ResumeFailureFatal ==
    resumeSt \in {"absent", "partial"} =>
        /\ pc = "failed"
        /\ error = "resume"
        /\ steps = <<>>
        /\ iters = 0
        /\ train_loss = "none"
        /\ lastFile = prevFiles[1]
        /\ bestFile = prevFiles[2]

C15_Witness ==
    /\ resume = "last"
    /\ resumeSt = "partial"
    /\ pc = "failed"
    /\ lastFile = Partial
    /\ bestFile.st = "ok"

\* the iterations of the process are complete: none is under way
Settled ==
    /\ pc \in {"check", "train", "stopped_early", "stopped_budget"}
    /\ Len(scores) >= 1

\* the earliest epoch whose score is the current max_validation_mAP
EarliestMax ==
    CHOOSE i \in 1..Len(scores) :
        /\ scores[i] = early_stopper.max_validation_mAP
        /\ \A j \in 1..(i - 1) : scores[j] # scores[i]

\* the model_config of epoch e of a fresh uninterrupted process
ConfigOf(e) ==
    [st |-> "ok", epoch |-> e, loss |-> "finite",
     model_state_dict |-> SubSeq(model, 1, e),
     opt_state_dict |-> e * NumBatches, sched_state_dict |-> e]

\* C16: within one process, while no score has reached threshold, after
\* every completed iteration the best file holds the state of the earliest
\* epoch whose score equals max_validation_mAP; an iteration whose call
\* answered save=false (regression, plateau, patience stop) leaves the best
\* file as the earlier iteration wrote it.
C16_BestIsEarliestMax ==
    (Settled /\ \A j \in 1..Len(scores) : scores[j] < args.threshold) =>
        /\ \E i \in 1..Len(scores) :
               scores[i] = early_stopper.max_validation_mAP
        /\ bestFile = ConfigOf(EarliestMax)
        /\ ~outs[Len(scores)].save => bestFile.epoch < Len(scores)
        /\ (outs[Len(scores)].stop /\ ~outs[Len(scores)].save) =>
               /\ pc \in {"check", "stopped_early"}
               /\ early_stopper.counter > args.patience

C16_Witness ==
    /\ pc = "stopped_early"
    /\ Len(scores) = 4
    /\ scores[1] = scores[3]
    /\ scores[2] < scores[1]
    /\ scores[4] < scores[1] - args.min_delta
    /\ scores[1] < args.threshold
    /\ bestFile = ConfigOf(1)
    /\ lastFile = ConfigOf(4)

\* C17: every process, fresh or resumed, enters its first iteration with
\* counter = 0 and max_validation_mAP = -inf, so its first early_stop call
\* answers save=true whatever the score, and its first completed epoch
\* replaces the best file, also when the file it replaces was written for
\* a higher score.
C17_FreshStopperEachProcess ==
    /\ (pc \in {"train", "validate", "early_stop"} /\ iters = 0) =>
           /\ early_stopper.counter = 0
           /\ early_stopper.max_validation_mAP = NegInf
    /\ (pc \in {"save_last", "writing_last"} /\ iters = 0) => is_save_ckpt
    /\ (pc \in {"save_best", "writing_best", "check"} /\ iters = 1) =>
           is_save_ckpt
    /\ (pc = "check" /\ iters = 1) =>
           /\ bestFile = model_config
           /\ bestScore = val_map

C17_Witness ==
    /\ proc = 2
    /\ resume = "last"
    /\ start_epoch >= 1
    /\ pc = "check"
    /\ iters = 1
    /\ prevFiles[2].st = "ok"
    /\ prevFiles[3] > val_map
    /\ val_map < args.threshold
    /\ bestFile = model_config
    /\ bestFile # prevFiles[2]

\* the last call that assigned max_validation_mAP (0 when none did)
LastUpdate ==
    LET U == {i \in 1..Len(outs) : outs[i].max # MaxBefore(i)} IN
    IF U = {} THEN 0 ELSE CHOOSE i \in U : \A j \in U : j <= i

\* the calls since then whose score was below max_validation_mAP - min_delta
Regressions ==
    {i \in (LastUpdate + 1)..Len(scores) :
        /\ early_stopper.max_validation_mAP # NegInf
        /\ scores[i] < early_stopper.max_validation_mAP - args.min_delta}

\* C18: in the epoch loop with patience >= 0, counter is the number of
\* early_stop calls since the last update of max_validation_mAP whose score
\* was below max_validation_mAP - min_delta (plateau calls neither count nor
\* reset it), 0 <= counter <= patience + 1, and a call below threshold
\* answers stop exactly when it takes counter to patience + 1.
C18_CounterMeaning ==
    args.patience >= 0 =>
        /\ early_stopper.counter = Cardinality(Regressions)
        /\ early_stopper.counter >= 0
        /\ early_stopper.counter <= args.patience + 1
        /\ \A i \in 1..Len(outs) :
               scores[i] < args.threshold =>
                   (outs[i].stop <=>
                        /\ outs[i].counter = args.patience + 1
                        /\ CounterBefore(i) = args.patience)

C18_Witness ==
    /\ args.patience >= 1
    /\ Len(scores) >= 4
    /\ \E i, j, k \in Regressions :
           /\ i < j
           /\ j + 1 < k
           /\ OnPlateau(j + 1)
    /\ outs[Len(outs)].stop
    /\ ~outs[Len(outs)].save
    /\ early_stopper.counter = args.patience + 1
    /\ pc = "stopped_early"

\* C19: when train() or validate() raises in an iteration the process ends
\* as failed: that iteration writes neither file, both files are as they
\* were when the iteration began, and nothing runs afterwards; when the
\* write of the last file raises, the best file is not written in that
\* iteration.
C19_FailureEndsRun ==
    /\ error # "none" => pc = "failed"
    /\ error \in {"train", "validate"} =>
           /\ lastFile = prevFiles[1]
           /\ bestFile = prevFiles[2]
           /\ \A i \in 1..Len(steps) :
                  steps[i] \notin {"save_last", "save_best"}
    /\ error = "save_last" =>
           /\ bestFile = prevFiles[2]
           /\ \A i \in 1..Len(steps) : steps[i] # "save_best"

C19_Witness ==
    /\ error = "validate"
    /\ pc = "failed"
    /\ steps = <<"train">>
    /\ iters >= 1
    /\ epoch > start_epoch
    /\ lastFile.st = "ok"
    /\ lastFile.epoch = epoch
    /\ Len(model) = epoch + 1
    /\ bestFile.st = "ok"
    /\ bestFile.epoch < epoch

====
